---- MODULE Spec2Model ----
(***************************************************************************)
(* BreakGuard: the compatibility classifier (check_api), the project       *)
(* aggregator (check_project) and the CLI flow that drives them (main).    *)
(*                                                                         *)
(* Similarity scores are fixed-point numbers with five decimals: the       *)
(* integer n stands for n / 100000, so 0.85 is 85000.  A reported          *)
(* similarity (rounded to 4 decimals) is counted in units of 0.0001 and a  *)
(* confidence (a percentage rounded to 1 decimal) in units of 0.1 %.       *)
(* The sampled scores never lie exactly half way between two rounded       *)
(* values, where the binary representation of the float decides.           *)
(***************************************************************************)
EXTENDS Integers, Sequences, FiniteSets, TLC

VARIABLES
    pc,             \* position of the running program
    args,           \* main: the parsed command line, NoArgs for library use
    exit_code,      \* main: the process exit code, -1 while running
    call,           \* check_project: old_version, new_version, library
    api_usage,      \* check_project: sequence of <<file, calls>> in dict order
    todo,           \* check_project: symbols the first loop has not reached
    results_cache,  \* check_project: symbol -> verdict
    lists,          \* check_project: the four detail lists
    report,         \* the value returned by the last check_project, or NoReport
    runs,           \* number of check_project calls started on this checker
    seen,           \* symbols classified by earlier check_project calls
    queries,        \* provider log: symbol -> queries issued in the current call
    answers,        \* provider log: symbol -> what the provider answered
    api_in,         \* direct check_api call: its arguments and the provider answer
    api_out,        \* direct check_api call: what it returned
    has_esprima,    \* code_analyzer: HAS_ESPRIMA, set when the module is imported
    project,        \* scan_project: the files the walk has met, with their state
    scan_results,   \* scan_project: sequence of <<file, calls>> in insertion order
    skipped,        \* scan_project: sequence of <<file, reason>>
    again_in,       \* a later call on the same checker: its arguments
    again_out       \* a later call on the same checker: what it returned

scanVars == <<has_esprima, project, scan_results, skipped>>

pairVars == <<again_in, again_out>>

vars == <<pc, args, exit_code, call, api_usage, todo, results_cache,
          lists, report, runs, seen, queries, answers, api_in, api_out,
          has_esprima, project, scan_results, skipped, again_in, again_out>>

----------------------------------------------------------------------------
(* Bounds of the model *)

MaxFiles == 2
NumSymbols == 2
MaxRuns == 2

----------------------------------------------------------------------------
(* Configuration *)

BREAKING_THRESHOLD == 85000
MINOR_THRESHOLD == 95000

\* Canonical symbols in the order of Python's sorted() (code points).
SortedNames ==
    <<"React.Children.map", "React.Component", "React.Fragment",
      "React.PureComponent", "React.createElement", "ReactDOM.render",
      "createRoot", "useId", "useState">>

\* The symbols the scanned projects use, most interesting first.
Catalog == <<"ReactDOM.render", "useState", "React.Component", "useId">>

Symbols == {Catalog[i] : i \in 1..NumSymbols}
Files == 1..MaxFiles

\* Keys of MIGRATION_GUIDES; each has a guide for version "18" only.
GuidedApis == {"ReactDOM.render", "ReactDOM.hydrate",
               "ReactDOM.unmountComponentAtNode", "ReactDOM.findDOMNode"}

Versions == {"18", "latest"}
NumericVersions == {"17", "18", "19"}

EmptyMap == [s \in {} |-> 0]
NoArgs == [none |-> TRUE]
NoReport == [none |-> TRUE]
NoCall == [none |-> TRUE]
EmptyLists == [breaking_changes |-> <<>>, minor_changes |-> <<>>,
               compatible |-> <<>>, errors |-> <<>>]

----------------------------------------------------------------------------
(* Python helpers *)

\* dict.get(key, default)
Get(d, key, default) == IF key \in DOMAIN d THEN d[key] ELSE default

Rank(s) == CHOOSE i \in 1..Len(SortedNames) : SortedNames[i] = s

RECURSIVE SortedList(_)
\* sorted(S) for a set of canonical symbols
SortedList(S) ==
    IF S = {} THEN <<>>
    ELSE LET m == CHOOSE x \in S : \A y \in S : Rank(x) <= Rank(y)
         IN <<m>> \o SortedList(S \ {m})

\* round(similarity, 4), in units of 0.0001
Round4(similarity) == (similarity + 5) \div 10

\* round(similarity * 100, 1), in units of 0.1 %
Confidence(similarity) == (similarity + 50) \div 100

Range(seq) == {seq[i] : i \in 1..Len(seq)}

----------------------------------------------------------------------------
(* CompatibilityChecker: the classifier *)

\* Message texts are tuples of their literal and interpolated parts.

\* A lookup that forgets the version level of the table.
GetMigrationAnyVersion(api_call, new_version) ==
    IF api_call \in GuidedApis
    THEN <<"guide", api_call, "18">>
    ELSE <<"  No specific migration guide available. Check the official documentation.">>

GetMigration(api_call, new_version) ==
    IF api_call \in GuidedApis /\ new_version = "18"
    THEN <<"guide", api_call, new_version>>
    ELSE <<"  No specific migration guide available. Check the official documentation.">>

GetBreakMessage(old_api, new_api, meta) ==
    IF Get(meta, "deprecated", FALSE)
    THEN <<old_api, " is DEPRECATED in the new version. Use ",
           Get(meta, "migrateTo", new_api), " instead.">>
    ELSE IF Get(meta, "replaces", "") # ""
    THEN <<old_api, " has been replaced by ", new_api, ".">>
    ELSE <<old_api, " has significant changes in the new version (closest match: ",
           new_api, ").">>

\* int(new_version) succeeds
IsInt(new_version) == new_version \in NumericVersions

\* A classifier that asks again after a failed query.
QueryAttemptsRetry(outcome) == IF outcome.kind = "raises" THEN 2 ELSE 1

\* The provider is asked once per check_api call, inside one try block.
QueryAttempts(outcome) == 1

\* A decision table that takes the breaking threshold itself as breaking.
DecideInclusive(is_deprecated, similarity) ==
    IF is_deprecated \/ similarity <= BREAKING_THRESHOLD THEN "breaking_change"
    ELSE IF similarity < MINOR_THRESHOLD THEN "minor_change"
    ELSE "compatible"

\* The branch of the decision logic taken for the top candidate.
Decide(is_deprecated, similarity) ==
    IF is_deprecated \/ similarity < BREAKING_THRESHOLD THEN "breaking_change"
    ELSE IF similarity < MINOR_THRESHOLD THEN "minor_change"
    ELSE "compatible"

\* A classifier that decides on the last candidate of the list.
BestMatchVerdictLast(api_call, new_version, results) ==
    LET best_match == results[Len(results)]
        similarity == Get(best_match, "similarity", 0)
        match_meta == Get(best_match, "meta", EmptyMap)
        matched_function == Get(match_meta, "function", "unknown")
        is_deprecated == Get(match_meta, "deprecated", FALSE)
        status == Decide(is_deprecated, similarity)
    IN  IF status = "breaking_change"
        THEN [status |-> "breaking_change",
              old_api |-> api_call,
              new_api |-> matched_function,
              similarity |-> Round4(similarity),
              deprecated |-> is_deprecated,
              message |-> GetBreakMessage(api_call, matched_function, match_meta),
              migration |-> GetMigration(api_call, new_version),
              confidence |-> Confidence(similarity)]
        ELSE IF status = "minor_change"
        THEN [status |-> "minor_change",
              old_api |-> api_call,
              new_api |-> matched_function,
              similarity |-> Round4(similarity),
              message |-> <<api_call, " has minor behavioral changes in v", new_version>>,
              confidence |-> Confidence(similarity)]
        ELSE [status |-> "compatible",
              api |-> api_call,
              matched |-> matched_function,
              similarity |-> Round4(similarity),
              confidence |-> Confidence(similarity)]

\* The verdict built for a non-empty result list.
BestMatchVerdict(api_call, new_version, results) ==
    LET best_match == results[1]
        similarity == Get(best_match, "similarity", 0)
        match_meta == Get(best_match, "meta", EmptyMap)
        matched_function == Get(match_meta, "function", "unknown")
        is_deprecated == Get(match_meta, "deprecated", FALSE)
        status == Decide(is_deprecated, similarity)
    IN  IF status = "breaking_change"
        THEN [status |-> "breaking_change",
              old_api |-> api_call,
              new_api |-> matched_function,
              similarity |-> Round4(similarity),
              deprecated |-> is_deprecated,
              message |-> GetBreakMessage(api_call, matched_function, match_meta),
              migration |-> GetMigration(api_call, new_version),
              confidence |-> Confidence(similarity)]
        ELSE IF status = "minor_change"
        THEN [status |-> "minor_change",
              old_api |-> api_call,
              new_api |-> matched_function,
              similarity |-> Round4(similarity),
              message |-> <<api_call, " has minor behavioral changes in v", new_version>>,
              confidence |-> Confidence(similarity)]
        ELSE [status |-> "compatible",
              api |-> api_call,
              matched |-> matched_function,
              similarity |-> Round4(similarity),
              confidence |-> Confidence(similarity)]

\* A classifier that reports an empty answer as a failed query.
NotFoundAsError(api_call, new_version, library) ==
    [status |-> "error", api |-> api_call, error |-> "no results"]

\* The verdict built when the query returned nothing.
NotFoundVerdict(api_call, new_version, library) ==
    [status |-> "breaking_change",
     old_api |-> api_call,
     new_api |-> "NOT FOUND",
     similarity |-> 0,
     message |-> <<api_call, " has no equivalent in ", library, " ", new_version>>,
     migration |-> GetMigration(api_call, new_version)]

\* The keys of the description table of _build_context.
ContextKeys ==
    {"ReactDOM.render", "ReactDOM.hydrate", "ReactDOM.unmountComponentAtNode",
     "ReactDOM.findDOMNode", "ReactDOM.createPortal", "useState", "useEffect",
     "useContext", "useReducer", "useCallback", "useMemo", "useRef",
     "useLayoutEffect", "useImperativeHandle", "useDebugValue",
     "React.Component", "React.PureComponent", "React.Fragment",
     "React.Suspense", "React.StrictMode", "React.createElement",
     "React.cloneElement", "React.createRef", "React.forwardRef", "React.memo",
     "React.lazy", "React.createContext", "React.Profiler",
     "React.Children.map", "React.isValidElement", "createRoot", "hydrateRoot"}

\* _build_context: the text handed to the embedding engine, as its parts.
\* A table entry is "<key>: <description>"; the default is an f-string
\* around the symbol.  The method receives the symbol only.
BuildContext(api_call) ==
    IF api_call \in ContextKeys
    THEN <<api_call, ": ", "description">>
    ELSE <<api_call, ": ", "React", " API function call">>

\* index.query(...): what check_api sends to the provider.  The vector is
\* the encoding of the description; old_version is not among the arguments.
ProviderQuery(api_call, old_version, new_version, library) ==
    [vector |-> BuildContext(api_call), top_k |-> 5, include_vectors |-> FALSE,
     filter |-> <<[library |-> library], [version |-> new_version]>>]

\* The verdict built when the query raised.
ErrorVerdict(api_call, outcome) ==
    [status |-> "error", api |-> api_call, error |-> outcome.error]

\* A classifier without the except clause around the query.
CheckApiNoCatch(api_call, old_version, new_version, library, outcome) ==
    IF ~IsInt(new_version)
    THEN [raised |-> TRUE, error |-> "ValueError", asked |-> 0]
    ELSE IF outcome.kind = "raises"
    THEN [raised |-> TRUE, error |-> outcome.error, asked |-> 1]
    ELSE IF outcome.results = <<>>
    THEN [raised |-> FALSE, asked |-> 1,
          verdict |-> NotFoundVerdict(api_call, new_version, library)]
    ELSE [raised |-> FALSE, asked |-> 1,
          verdict |-> BestMatchVerdict(api_call, new_version, outcome.results)]

\* A classifier that builds its verdicts for the version in use.
CheckApiFromOld(api_call, old_version, new_version, library, outcome) ==
    IF ~IsInt(new_version)
    THEN [raised |-> TRUE, error |-> "ValueError", asked |-> 0]
    ELSE IF outcome.kind = "raises"
    THEN [raised |-> FALSE, asked |-> QueryAttempts(outcome),
          verdict |-> ErrorVerdict(api_call, outcome)]
    ELSE IF outcome.results = <<>>
    THEN [raised |-> FALSE, asked |-> QueryAttempts(outcome),
          verdict |-> NotFoundVerdict(api_call, old_version, library)]
    ELSE [raised |-> FALSE, asked |-> QueryAttempts(outcome),
          verdict |-> BestMatchVerdict(api_call, old_version, outcome.results)]

\* check_api, given what the provider does when queried.  The result says
\* whether the call returned or raised, and how often the provider was asked.
CheckApi(api_call, old_version, new_version, library, outcome) ==
    IF ~IsInt(new_version)
    THEN [raised |-> TRUE, error |-> "ValueError", asked |-> 0]
    ELSE IF outcome.kind = "raises"
    THEN [raised |-> FALSE, asked |-> QueryAttempts(outcome),
          verdict |-> ErrorVerdict(api_call, outcome)]
    ELSE IF outcome.results = <<>>
    THEN [raised |-> FALSE, asked |-> QueryAttempts(outcome),
          verdict |-> NotFoundVerdict(api_call, new_version, library)]
    ELSE [raised |-> FALSE, asked |-> QueryAttempts(outcome),
          verdict |-> BestMatchVerdict(api_call, new_version, outcome.results)]

\* What the match provider may do when queried.
Raises(err) == [kind |-> "raises", error |-> err]
Returns(results) == [kind |-> "results", results |-> results]

Candidate(similarity, meta) == [similarity |-> similarity, meta |-> meta]
Meta(function, deprecated) == [function |-> function, deprecated |-> deprecated]

----------------------------------------------------------------------------
(* CompatibilityChecker: the project aggregator *)

\* all_calls: the union of the call lists of all files
AllCalls(usage) == UNION {Range(usage[i].calls) : i \in 1..Len(usage)}

RECURSIVE CallsToCheckPerFile(_)
\* An aggregator that walks the call lists of the files without the union.
CallsToCheckPerFile(usage) ==
    IF usage = <<>> THEN <<>>
    ELSE Head(usage).calls \o CallsToCheckPerFile(Tail(usage))

\* sorted(all_calls): the symbols the first loop walks
CallsToCheck(usage) == SortedList(AllCalls(usage))

\* An aggregator whose cache belongs to the checker and is never cleared.
FreshCacheKeep(previous) == previous

\* results_cache = {} at the start of every check_project call
FreshCache(previous) == EmptyMap

\* {"file": file_path, **result}
Entry(file_path, result) == result @@ ("file" :> file_path)

\* A loop body without the branch for failed queries.
AppendEntryNoErrorBranch(ls, file_path, result) ==
    IF result.status = "breaking_change"
    THEN [ls EXCEPT !.breaking_changes = Append(@, Entry(file_path, result))]
    ELSE IF result.status = "minor_change"
    THEN [ls EXCEPT !.minor_changes = Append(@, Entry(file_path, result))]
    ELSE [ls EXCEPT !.compatible = Append(@, Entry(file_path, result))]

\* One pass of the inner loop body: the entry goes to the list of its status.
AppendEntry(ls, file_path, result) ==
    IF result.status = "breaking_change"
    THEN [ls EXCEPT !.breaking_changes = Append(@, Entry(file_path, result))]
    ELSE IF result.status = "minor_change"
    THEN [ls EXCEPT !.minor_changes = Append(@, Entry(file_path, result))]
    ELSE IF result.status = "error"
    THEN [ls EXCEPT !.errors = Append(@, Entry(file_path, result))]
    ELSE [ls EXCEPT !.compatible = Append(@, Entry(file_path, result))]

\* The canonical symbol a detail entry is about.
SymbolOf(entry) == IF "old_api" \in DOMAIN entry THEN entry.old_api ELSE entry.api

\* The entries of all four lists.
AllEntries(ls) ==
    ls.breaking_changes \o ls.minor_changes \o ls.compatible \o ls.errors

RECURSIVE FanOutFileOnce(_, _, _, _)
\* A fan-out that reports a symbol for the first file that uses it only.
FanOutFileOnce(ls, file_path, calls, cache) ==
    IF calls = <<>> THEN ls
    ELSE FanOutFileOnce(
             IF \E e \in Range(AllEntries(ls)) : SymbolOf(e) = Head(calls)
             THEN ls
             ELSE AppendEntry(ls, file_path, cache[Head(calls)]),
             file_path, Tail(calls), cache)

RECURSIVE FanOutFile(_, _, _, _)
\* The inner loop: every call of one file, in list order.
FanOutFile(ls, file_path, calls, cache) ==
    IF calls = <<>> THEN ls
    ELSE FanOutFile(AppendEntry(ls, file_path, cache[Head(calls)]),
                    file_path, Tail(calls), cache)

\* A count that takes every verdict that is not breaking as compatible.
CountStatusLoose(cache, status) ==
    IF status = "compatible"
    THEN Cardinality({s \in DOMAIN cache : cache[s].status # "breaking_change"})
    ELSE Cardinality({s \in DOMAIN cache : cache[s].status = status})

RECURSIVE FanOutAll(_, _, _)
\* The outer loop: every file of api_usage, in dict order.
FanOutAll(ls, usage, cache) ==
    IF usage = <<>> THEN ls
    ELSE FanOutAll(FanOutFile(ls, Head(usage).file, Head(usage).calls, cache),
                   Tail(usage), cache)

\* len([r for r in results_cache.values() if r["status"] == status])
CountStatus(cache, status) ==
    Cardinality({s \in DOMAIN cache : cache[s].status = status})

Summary(all_calls, cache) ==
    [total_apis |-> Cardinality(all_calls),
     breaking |-> CountStatus(cache, "breaking_change"),
     minor |-> CountStatus(cache, "minor_change"),
     compatible |-> CountStatus(cache, "compatible"),
     errors |-> CountStatus(cache, "error")]

\* A report whose summary counts the entries of the detail lists.
ReportByOccurrence(ls, all_calls, cache) ==
    [breaking_changes |-> ls.breaking_changes,
     minor_changes |-> ls.minor_changes,
     compatible |-> ls.compatible,
     errors |-> ls.errors,
     summary |-> [total_apis |-> Cardinality(all_calls),
                  breaking |-> Len(ls.breaking_changes),
                  minor |-> Len(ls.minor_changes),
                  compatible |-> Len(ls.compatible),
                  errors |-> Len(ls.errors)]]

\* The dictionary check_project returns.
Report(ls, all_calls, cache) ==
    [breaking_changes |-> ls.breaking_changes,
     minor_changes |-> ls.minor_changes,
     compatible |-> ls.compatible,
     errors |-> ls.errors,
     summary |-> Summary(all_calls, cache)]

----------------------------------------------------------------------------
(* Inputs *)

RECURSIVE Ascending(_)
\* The files of a set in the order the walk meets them: a file is named by
\* its position in the walk.
Ascending(P) ==
    IF P = {} THEN <<>>
    ELSE LET m == CHOOSE x \in P : \A y \in P : x <= y
         IN <<m>> \o Ascending(P \ {m})

\* The files with matches, in the order in which the scan inserted them.
FileOrders == {Ascending(P) : P \in SUBSET Files}

\* What scan_project can return: per file a non-empty sorted list without
\* duplicates, in the order the walk met the files.
ScanResults ==
    UNION {{[i \in 1..Len(q) |-> [file |-> q[i], calls |-> SortedList(c[i])]] :
              c \in [1..Len(q) -> (SUBSET Symbols) \ {{}}]} : q \in FileOrders}

\* The scan results a library caller passes: projects of at most one file.
LibraryUsages == {usage \in ScanResults : Len(usage) <= 1}

\* Provider behaviours met while checking a project.
ProjectOutcomes ==
    {Raises("ConnectionError"),
     Returns(<<>>),
     Returns(<<Candidate(80000, Meta("hydrateRoot", FALSE))>>),
     Returns(<<Candidate(90000, Meta("useState", FALSE))>>),
     Returns(<<Candidate(97000, Meta("useState", FALSE))>>)}

\* Values of --threshold
Thresholds == {70000, BREAKING_THRESHOLD}

CommandLines ==
    [path_exists : BOOLEAN, threshold : Thresholds, old_version : {"17"},
     new_version : Versions, library : {"react"}]

----------------------------------------------------------------------------
(* Actions *)

Init ==
    /\ pc = "start"
    /\ args = NoArgs
    /\ exit_code = -1
    /\ call = NoCall
    /\ api_usage = <<>>
    /\ todo = <<>>
    /\ results_cache = EmptyMap
    /\ lists = EmptyLists
    /\ report = NoReport
    /\ runs = 0
    /\ seen = {}
    /\ queries = [s \in Symbols |-> 0]
    /\ answers = EmptyMap
    /\ api_in = NoCall
    /\ api_out = NoCall
    /\ has_esprima = TRUE
    /\ project = <<>>
    /\ scan_results = <<>>
    /\ skipped = <<>>
    /\ again_in = NoCall
    /\ again_out = NoCall

\* The first lines of check_project: empty lists, the union of the calls,
\* an empty cache.  The two loops follow.
EnterProject(usage, old_version, new_version, library) ==
    /\ api_usage' = usage
    /\ call' = [old_version |-> old_version, new_version |-> new_version,
                library |-> library]
    /\ lists' = EmptyLists
    /\ todo' = CallsToCheck(usage)
    /\ results_cache' = FreshCache(results_cache)
    /\ report' = NoReport
    /\ runs' = runs + 1
    /\ seen' = seen \cup DOMAIN answers
    /\ queries' = [s \in Symbols |-> 0]
    /\ answers' = EmptyMap
    /\ pc' = IF CallsToCheck(usage) = <<>> THEN "fanout" ELSE "classify"

\* A program other than the CLI constructs a checker.
Construct ==
    /\ pc = "start"
    /\ pc' = "idle"
    /\ UNCHANGED <<args, exit_code, call, api_usage, todo, results_cache,
                   lists, report, runs, seen, queries, answers, api_in, api_out>>
    /\ UNCHANGED scanVars
    /\ UNCHANGED pairVars

\* A library caller calls check_project on its checker.
CallCheckProject ==
    /\ pc \in {"idle", "done"}
    /\ args = NoArgs
    /\ runs < MaxRuns
    /\ \E usage \in LibraryUsages, new_version \in Versions :
           EnterProject(usage, "17", new_version, "react")
    /\ UNCHANGED <<args, exit_code, api_in, api_out>>
    /\ UNCHANGED scanVars
    /\ UNCHANGED pairVars

\* One iteration of the first loop: check_api on the next unique symbol.
Classify ==
    /\ pc = "classify"
    /\ todo # <<>>
    /\ \E outcome \in ProjectOutcomes :
         LET api_call == Head(todo)
             r == CheckApi(api_call, call.old_version, call.new_version,
                           call.library, outcome)
         IN  /\ queries' = [queries EXCEPT ![api_call] = @ + r.asked]
             /\ answers' = IF r.asked > 0
                           THEN (api_call :> outcome) @@ answers
                           ELSE answers
             /\ IF r.raised
                THEN /\ pc' = "raised"
                     /\ UNCHANGED <<todo, results_cache>>
                ELSE /\ results_cache' = (api_call :> r.verdict) @@ results_cache
                     /\ todo' = Tail(todo)
                     /\ pc' = IF Tail(todo) = <<>> THEN "fanout" ELSE "classify"
    /\ UNCHANGED <<args, exit_code, call, api_usage, lists, report, runs,
                   seen, api_in, api_out>>
    /\ UNCHANGED scanVars
    /\ UNCHANGED pairVars

\* The second loop: the cached verdicts are mapped back to the files.
FanOut ==
    /\ pc = "fanout"
    /\ lists' = FanOutAll(lists, api_usage, results_cache)
    /\ pc' = "return"
    /\ UNCHANGED <<args, exit_code, call, api_usage, todo, results_cache,
                   report, runs, seen, queries, answers, api_in, api_out>>
    /\ UNCHANGED scanVars
    /\ UNCHANGED pairVars

\* The return statement of check_project.
Return ==
    /\ pc = "return"
    /\ report' = Report(lists, AllCalls(api_usage), results_cache)
    /\ pc' = "done"
    /\ UNCHANGED <<args, exit_code, call, api_usage, todo, results_cache,
                   lists, runs, seen, queries, answers, api_in, api_out>>
    /\ UNCHANGED scanVars
    /\ UNCHANGED pairVars

\* main: parse the command line.
MainParse ==
    /\ pc = "start"
    /\ \E a \in CommandLines : args' = a
    /\ pc' = "validate"
    /\ UNCHANGED <<exit_code, call, api_usage, todo, results_cache,
                   lists, report, runs, seen, queries, answers, api_in, api_out>>
    /\ UNCHANGED scanVars
    /\ UNCHANGED pairVars

\* A main that goes on to the scan whether the path exists or not.
MainValidateAlwaysScans ==
    /\ pc = "validate"
    /\ pc' = "scan"
    /\ UNCHANGED <<args, exit_code, call, api_usage, todo, results_cache,
                   lists, report, runs, seen, queries, answers, api_in, api_out>>
    /\ UNCHANGED scanVars
    /\ UNCHANGED pairVars

\* main: a path that does not exist ends the run with exit code 1.
MainValidate ==
    /\ pc = "validate"
    /\ IF args.path_exists
       THEN pc' = "scan" /\ UNCHANGED exit_code
       ELSE pc' = "exited" /\ exit_code' = 1
    /\ UNCHANGED <<args, call, api_usage, todo, results_cache,
                   lists, report, runs, seen, queries, answers, api_in, api_out>>
    /\ UNCHANGED scanVars
    /\ UNCHANGED pairVars

\* main: scan the project; nothing found ends the run with exit code 0.
MainScan ==
    /\ pc = "scan"
    /\ \E usage \in ScanResults :
         /\ api_usage' = usage
         /\ IF usage = <<>>
            THEN pc' = "exited" /\ exit_code' = 0
            ELSE pc' = "check" /\ UNCHANGED exit_code
    /\ UNCHANGED <<args, call, todo, results_cache,
                   lists, report, runs, seen, queries, answers, api_in, api_out>>
    /\ UNCHANGED scanVars
    /\ UNCHANGED pairVars

\* main: construct the checker and call check_project with the versions and
\* the library of the command line.
MainCheck ==
    /\ pc = "check"
    /\ EnterProject(api_usage, args.old_version, args.new_version, args.library)
    /\ UNCHANGED <<args, exit_code, api_in, api_out>>
    /\ UNCHANGED scanVars
    /\ UNCHANGED pairVars

\* main: print the report and leave.
MainReport ==
    /\ pc = "done"
    /\ args # NoArgs
    /\ pc' = "exited"
    /\ exit_code' = 0
    /\ UNCHANGED <<args, call, api_usage, todo, results_cache,
                   lists, report, runs, seen, queries, answers, api_in, api_out>>
    /\ UNCHANGED scanVars
    /\ UNCHANGED pairVars

\* A run of the command line tool.
Next ==
    \/ MainParse
    \/ MainValidate
    \/ MainScan
    \/ MainCheck
    \/ Classify
    \/ FanOut
    \/ Return
    \/ MainReport

Spec == Init /\ [][Next]_vars

\* A program that constructs a checker and calls check_project on it, up to
\* MaxRuns times.
NextLib ==
    \/ Construct
    \/ CallCheckProject
    \/ Classify
    \/ FanOut
    \/ Return

SpecLib == Init /\ [][NextLib]_vars

TypeOK ==
    /\ pc \in {"start", "idle", "classify", "fanout", "return", "done", "raised",
               "validate", "scan", "check", "exited", "called",
               "walk", "scanned", "scan_raised", "aborted",
               "called_again"}
    /\ runs \in 0..MaxRuns
    /\ DOMAIN results_cache \subseteq Symbols

----------------------------------------------------------------------------
(* Direct calls of check_api *)

ApiSimilarities ==
    {0, 40000, 60000, 84999, 85000, 90000, 94999, 95000, 99000, 100000}

ApiMetas ==
    {EmptyMap,
     [function |-> "createRoot"],
     Meta("createRoot", FALSE),
     Meta("createRoot", TRUE),
     Meta("createRoot", TRUE) @@ ("migrateTo" :> "createRoot().render"),
     Meta("createRoot", FALSE) @@ ("replaces" :> "ReactDOM.render")}

\* Candidates, some without a similarity or without metadata.
ApiCandidates ==
    {Candidate(sim, meta) : sim \in ApiSimilarities, meta \in ApiMetas}
        \cup {[meta |-> meta] : meta \in ApiMetas}
        \cup {[similarity |-> sim] : sim \in ApiSimilarities}

\* Candidates ranked below the top one.
LowerCandidates ==
    {Candidate(99000, Meta("useState", FALSE)), Candidate(10000, Meta("render", TRUE))}

ApiOutcomes ==
    {Raises(err) : err \in {"ConnectionError", "IndexNotFound"}}
        \cup {Returns(<<>>)}
        \cup {Returns(<<c>>) : c \in ApiCandidates}
        \cup {Returns(<<c, d>>) : c \in ApiCandidates, d \in LowerCandidates}

ApiVersions == {"18", "19", "latest"}
ApiLibraries == {"react", "vue"}

InitApi ==
    /\ Init
    /\ api_in = NoCall

\* check_api is called with some arguments while the provider behaves in
\* some way.
CallCheckApi ==
    /\ pc = "start"
    /\ \E api_call \in Range(Catalog), old_version \in {"16", "17"},
          new_version \in ApiVersions, library \in ApiLibraries,
          outcome \in ApiOutcomes :
         /\ api_in' = [api_call |-> api_call, old_version |-> old_version,
                       new_version |-> new_version, library |-> library,
                       outcome |-> outcome,
                       context |-> BuildContext(api_call),
                       query |-> ProviderQuery(api_call, old_version,
                                               new_version, library)]
         /\ api_out' = CheckApi(api_call, old_version, new_version, library, outcome)
    /\ pc' = "called"
    /\ UNCHANGED <<args, exit_code, call, api_usage, todo, results_cache,
                   lists, report, runs, seen, queries, answers>>
    /\ UNCHANGED scanVars
    /\ UNCHANGED pairVars

NextApi == CallCheckApi

SpecApi == InitApi /\ [][NextApi]_vars

\* The direct call returned a verdict.
Returned == api_out # NoCall /\ ~api_out.raised

\* The top candidate of the answer to the direct call, with the defaults
\* check_api reads for a missing score or flag.
TopSimilarity == Get(api_in.outcome.results[1], "similarity", 0)
TopDeprecated ==
    Get(Get(api_in.outcome.results[1], "meta", EmptyMap), "deprecated", FALSE)
HasCandidates ==
    Returned /\ api_in.outcome.kind = "results" /\ api_in.outcome.results # <<>>

\* C1: for a non-empty candidate list the status is decided by the top
\* candidate alone, in this order: deprecated or a score below 0.85 is
\* breaking_change, otherwise a score below 0.95 is minor_change, otherwise
\* compatible; 0.60 is breaking, 0.90 minor, 0.99 compatible, exactly 0.85
\* minor, exactly 0.95 compatible, deprecated at 0.99 breaking.
C1_DecisionTable ==
    HasCandidates =>
        /\ api_out.verdict.status \in {"breaking_change", "minor_change", "compatible"}
        /\ api_out.verdict.status = "breaking_change"
              <=> (TopDeprecated \/ TopSimilarity < 85000)
        /\ api_out.verdict.status = "minor_change"
              <=> (~TopDeprecated /\ 85000 <= TopSimilarity /\ TopSimilarity < 95000)
        /\ api_out.verdict.status = "compatible"
              <=> (~TopDeprecated /\ 95000 <= TopSimilarity)
        /\ TopDeprecated /\ TopSimilarity = 99000
              => api_out.verdict.status = "breaking_change"
        /\ ~TopDeprecated /\ TopSimilarity = 60000
              => api_out.verdict.status = "breaking_change"
        /\ ~TopDeprecated /\ TopSimilarity \in {85000, 90000}
              => api_out.verdict.status = "minor_change"
        /\ ~TopDeprecated /\ TopSimilarity \in {95000, 99000}
              => api_out.verdict.status = "compatible"

\* A candidate exactly at the breaking threshold was classified as minor.
C1_Witness ==
    /\ HasCandidates
    /\ ~TopDeprecated
    /\ TopSimilarity = 85000
    /\ api_out.verdict.status = "minor_change"

\* C2: when the query succeeds with zero candidates the verdict is
\* breaking_change with new_api "NOT FOUND" and similarity 0, whatever the
\* symbol, the versions and the library are.
C2_NoCandidates ==
    (/\ Returned
     /\ api_out.asked > 0
     /\ api_in.outcome.kind = "results"
     /\ api_in.outcome.results = <<>>)
        => /\ api_out.verdict.status = "breaking_change"
           /\ api_out.verdict.new_api = "NOT FOUND"
           /\ api_out.verdict.similarity = 0
           /\ api_out.verdict.old_api = api_in.api_call

\* An empty answer for a library other than react was reported as NOT FOUND.
C2_Witness ==
    /\ Returned
    /\ api_in.outcome = Returns(<<>>)
    /\ api_in.library = "vue"
    /\ api_out.verdict.new_api = "NOT FOUND"

\* C3: when the query raises, the call returns an error verdict carrying the
\* failure detail and has asked the provider exactly once.
C3_ErrorIsTerminal ==
    (api_out # NoCall /\ api_out.asked > 0 /\ api_in.outcome.kind = "raises")
        => /\ ~api_out.raised
           /\ api_out.verdict.status = "error"
           /\ api_out.verdict.error = api_in.outcome.error
           /\ api_out.verdict.api = api_in.api_call
           /\ api_out.asked = 1

\* A failed query was answered with an error verdict.
C3_Witness ==
    /\ Returned
    /\ api_in.outcome = Raises("IndexNotFound")
    /\ api_out.verdict.status = "error"
    /\ api_out.asked = 1

----------------------------------------------------------------------------
(* Properties of check_project *)

\* check_project has returned and its report is at hand.
Finished == report # NoReport

\* The (file, symbol) occurrences of the scan result.
Occurrences ==
    UNION {{<<api_usage[i].file, c>> : c \in Range(api_usage[i].calls)} :
              i \in 1..Len(api_usage)}

RECURSIVE TotalCalls(_)
\* The sum over the files of the length of the file's call list.
TotalCalls(usage) ==
    IF usage = <<>> THEN 0 ELSE Len(Head(usage).calls) + TotalCalls(Tail(usage))

\* The files that use a symbol.
FilesUsing(s) ==
    {api_usage[i].file : i \in {k \in 1..Len(api_usage) : s \in Range(api_usage[k].calls)}}

\* The detail entries of the report, all lists together.
Detail == AllEntries(report)

\* The positions of the entries of a list that are about one file and symbol.
EntriesFor(list, file_path, s) ==
    {k \in 1..Len(list) : list[k].file = file_path /\ SymbolOf(list[k]) = s}

\* The provider failed when asked about the symbol in the current call.
Failed(s) == s \in DOMAIN answers /\ answers[s].kind = "raises"

\* The list of the report that holds the entries of a status.
ListOf(status) ==
    IF status = "breaking_change" THEN report.breaking_changes
    ELSE IF status = "minor_change" THEN report.minor_changes
    ELSE IF status = "error" THEN report.errors
    ELSE report.compatible

\* C4: when check_project returns, the provider has been asked exactly once
\* for every symbol that occurs in some file, however many files use it, and
\* never for another symbol.
C4_OneQueryPerUniqueSymbol ==
    Finished =>
        \A s \in Symbols : queries[s] = IF FilesUsing(s) # {} THEN 1 ELSE 0

\* A symbol used by two files was asked for once.
C4_Witness ==
    /\ Finished
    /\ \E s \in Symbols : Cardinality(FilesUsing(s)) >= 2 /\ queries[s] = 1

\* C5: the detail lists hold exactly one entry per (file, symbol) occurrence,
\* and the entries of one symbol are equal up to the file path.
C5_OneEntryPerOccurrence ==
    Finished =>
        /\ Len(Detail) = TotalCalls(api_usage)
        /\ \A occ \in Occurrences :
               Cardinality(EntriesFor(Detail, occ[1], occ[2])) = 1
        /\ \A k1, k2 \in 1..Len(Detail) :
               SymbolOf(Detail[k1]) = SymbolOf(Detail[k2])
                   => [Detail[k1] EXCEPT !.file = 0] = [Detail[k2] EXCEPT !.file = 0]

\* A symbol used by two files has two entries.
C5_Witness ==
    /\ Finished
    /\ \E k1, k2 \in 1..Len(Detail) :
           /\ SymbolOf(Detail[k1]) = SymbolOf(Detail[k2])
           /\ Detail[k1].file # Detail[k2].file

\* C6: in every report the four status counts add up to total_apis.
C6_SummaryAddsUp ==
    Finished =>
        report.summary.breaking + report.summary.minor
            + report.summary.compatible + report.summary.errors
          = report.summary.total_apis

\* A report with one failed symbol and one symbol without candidates.
C6_Witness ==
    /\ Finished
    /\ report.summary.errors = 1
    /\ report.summary.total_apis = 2
    /\ \E k \in 1..Len(report.breaking_changes) :
           report.breaking_changes[k].new_api = "NOT FOUND"

\* The number of distinct symbols among the entries of a list.
DistinctSymbols(list) == Cardinality({SymbolOf(list[k]) : k \in 1..Len(list)})

\* C7: every summary count is the number of unique symbols with that status,
\* not the number of entries of the detail list.
C7_SummaryCountsUniqueSymbols ==
    Finished =>
        /\ report.summary.breaking = DistinctSymbols(report.breaking_changes)
        /\ report.summary.minor = DistinctSymbols(report.minor_changes)
        /\ report.summary.compatible = DistinctSymbols(report.compatible)
        /\ report.summary.errors = DistinctSymbols(report.errors)

\* One breaking symbol used by two files: counted once, listed twice.
C7_Witness ==
    /\ Finished
    /\ report.summary.breaking = 1
    /\ Len(report.breaking_changes) = 2

\* C8: a provider failure for one symbol does not abort check_project; in the
\* report the failed symbol has one error entry, with the error detail, for
\* each file that uses it and no other entry, and every other symbol has its
\* own verdict, in the list of its status, for each file that uses it.
C8_FailureDoesNotAbort ==
    /\ pc = "raised" => \A s \in Symbols : ~Failed(s)
    /\ Finished =>
         \A s \in Symbols : FilesUsing(s) # {} =>
            /\ s \in DOMAIN answers
            /\ s \in DOMAIN results_cache
            /\ results_cache[s].status = "error" <=> Failed(s)
            /\ Failed(s) => results_cache[s].error = answers[s].error
            /\ \A f \in Files :
                 /\ Cardinality(EntriesFor(ListOf(results_cache[s].status), f, s))
                      = IF f \in FilesUsing(s) THEN 1 ELSE 0
                 /\ Cardinality(EntriesFor(Detail, f, s))
                      = IF f \in FilesUsing(s) THEN 1 ELSE 0
                 /\ \A k \in EntriesFor(Detail, f, s) :
                      Detail[k] = Entry(f, results_cache[s])

\* The query for the first symbol failed and a later symbol got its verdict.
C8_Witness ==
    /\ Finished
    /\ \E s, t \in Symbols :
         /\ Rank(s) < Rank(t)
         /\ Failed(s)
         /\ t \in DOMAIN results_cache
         /\ results_cache[t].status = "compatible"
         /\ Len(report.errors) >= 1
         /\ Len(report.compatible) >= 1

\* C9: the cache belongs to one check_project call: at any point of a call it
\* holds exactly the symbols the provider was asked about in this call, with
\* the verdict of this call's answer, and a call that returns has asked once
\* for each of its symbols, also for those an earlier call classified.
C9_CachePerCall ==
    pc \in {"classify", "fanout", "return", "done"} =>
        /\ DOMAIN results_cache = {s \in Symbols : queries[s] > 0}
        /\ \A s \in DOMAIN results_cache :
             /\ s \in DOMAIN answers
             /\ results_cache[s].status = "error" <=> answers[s].kind = "raises"
             /\ answers[s].kind = "results" /\ answers[s].results # <<>>
                  => results_cache[s].similarity
                       = Round4(answers[s].results[1].similarity)
        /\ Finished => \A s \in seen : FilesUsing(s) # {} => queries[s] = 1

\* A second call on the same checker returned after asking again for a
\* symbol that the first call had classified.
C9_Witness ==
    /\ Finished
    /\ runs = 2
    /\ \E s \in seen : FilesUsing(s) # {} /\ queries[s] = 1

\* C10: the thresholds are configuration: in a run of the CLI a candidate
\* that is not deprecated and whose similarity lies between the value of
\* --threshold and the default 0.85 gets the verdict the configured
\* threshold asks for.
C10_ThresholdIsConfiguration ==
    args # NoArgs =>
        \A s \in DOMAIN results_cache :
            (/\ s \in DOMAIN answers
             /\ answers[s].kind = "results"
             /\ answers[s].results # <<>>
             /\ ~answers[s].results[1].meta.deprecated
             /\ args.threshold <= answers[s].results[1].similarity
             /\ answers[s].results[1].similarity < BREAKING_THRESHOLD)
                => results_cache[s].status = "minor_change"

----------------------------------------------------------------------------
(* code_analyzer: the pattern catalog *)

\* The catalog names the sampled sources can mention.
REACT_HOOKS == {"useState", "useEffect", "useId"}

REACT_MEMBER_APIS ==
    [ReactDOM |-> {"render", "hydrate", "createPortal"},
     React |-> {"createElement", "createRef", "memo"}]

REACT_COMPONENT_APIS ==
    {"React.Component", "React.PureComponent", "React.Fragment",
     "React.Suspense", "React.StrictMode", "React.Profiler"}

REACT_IMPORTS == {"createRoot", "hydrateRoot"}

\* f"{owner}.{name}": the dotted names the sampled sources can produce; any
\* other pair gives a name outside every catalog set.
Dotted(owner, name) ==
    CASE owner = "ReactDOM" /\ name = "render" -> "ReactDOM.render"
      [] owner = "React" /\ name = "createElement" -> "React.createElement"
      [] owner = "React" /\ name = "Component" -> "React.Component"
      [] owner = "React" /\ name = "PureComponent" -> "React.PureComponent"
      [] owner = "React" /\ name = "Fragment" -> "React.Fragment"
      [] OTHER -> "other"

----------------------------------------------------------------------------
(* code_analyzer: the structural extractor *)

\* Syntax tree nodes are records tagged by "type", as esprima's toDict gives
\* them.  The fields below hold a node or a list of nodes; every other field
\* holds a string or a flag.
IsDictField(node, key) ==
    \/ key \in {"object", "property", "callee", "superClass", "id", "init",
                "expression", "source", "imported", "local", "openingElement"}
    \/ key = "body" /\ node.type \in {"ClassDeclaration", "ClassExpression"}
    \/ key = "name" /\ node.type = "JSXOpeningElement"

IsListField(node, key) ==
    \/ key \in {"arguments", "declarations", "specifiers", "children"}
    \/ key = "body" /\ node.type \in {"Program", "ClassBody"}

\* The values of a node that walk() recurses into.
Children(node) ==
    {node[k] : k \in {f \in DOMAIN node : IsDictField(node, f)}}
        \cup UNION {Range(node[k]) : k \in {f \in DOMAIN node : IsListField(node, f)}}

\* What the branches of walk() add for one node, before the recursion.
Visit(node) ==
    LET node_type == Get(node, "type", "")
        obj_name == Get(Get(node, "object", EmptyMap), "name", "")
        prop_name == Get(Get(node, "property", EmptyMap), "name", "")
        callee_name == Get(Get(node, "callee", EmptyMap), "name", "")
        superclass == Get(node, "superClass", EmptyMap)
        super_obj == Get(Get(superclass, "object", EmptyMap), "name", "")
        super_prop == Get(Get(superclass, "property", EmptyMap), "name", "")
        SpecifierName(spec) ==
            IF Get(Get(spec, "imported", EmptyMap), "name", "") # ""
            THEN spec.imported.name
            ELSE Get(Get(spec, "local", EmptyMap), "name", "")
    IN  (IF /\ node_type = "MemberExpression"
            /\ obj_name \in DOMAIN REACT_MEMBER_APIS
            /\ prop_name \in REACT_MEMBER_APIS[obj_name]
         THEN {Dotted(obj_name, prop_name)} ELSE {})
        \cup
        (IF node_type = "MemberExpression" /\ obj_name = "React"
               /\ prop_name = "Children"
         THEN {"React.Children.map"} ELSE {})
        \cup
        (IF node_type = "CallExpression"
               /\ callee_name \in REACT_HOOKS \cup REACT_IMPORTS
         THEN {callee_name} ELSE {})
        \cup
        (IF node_type = "ClassDeclaration" /\ super_obj = "React"
               /\ super_prop \in {"Component", "PureComponent"}
         THEN {Dotted("React", super_prop)} ELSE {})
        \cup
        (IF node_type = "JSXMemberExpression" /\ obj_name = "React"
               /\ Dotted("React", prop_name) \in REACT_COMPONENT_APIS
         THEN {Dotted("React", prop_name)} ELSE {})
        \cup
        (IF node_type = "ImportDeclaration"
         THEN {SpecifierName(spec) : spec \in Range(Get(node, "specifiers", <<>>))}
                  \cap (REACT_HOOKS \cup REACT_IMPORTS)
         ELSE {})

RECURSIVE Walk(_)
\* walk(node): the symbols found in the tree below a node
Walk(node) == Visit(node) \cup UNION {Walk(c) : c \in Children(node)}

----------------------------------------------------------------------------
(* code_analyzer: the lexical extractor *)

\* A source text is a sequence of tokens: identifiers, punctuation and " "
\* for a run of white space.  A pattern that ends or starts inside an
\* identifier is not sampled.
Punctuation == {" ", ".", "(", ")", "{", "}", "<", ">", "=", ";", ",", "//", "'"}

At(code, i) == IF i \in 1..Len(code) THEN code[i] ELSE ""

\* The token after \s* from position i on.
AfterSpace(code, i) == IF At(code, i) = " " THEN At(code, i + 1) ELSE At(code, i)

\* Owner\.(name)\s*[closers] matches at position i
MemberCallAt(code, i, owner, names, closers) ==
    /\ At(code, i) = owner
    /\ At(code, i + 1) = "."
    /\ At(code, i + 2) \in names
    /\ AfterSpace(code, i + 3) \in closers

\* The symbols the regex rules find in a text.
RegexCalls(code) ==
    LET P == 1..Len(code) IN
    {Dotted("ReactDOM", code[i + 2]) : i \in {j \in P :
        MemberCallAt(code, j, "ReactDOM", REACT_MEMBER_APIS.ReactDOM, {"("})}}
    \cup
    {Dotted("React", code[i + 2]) : i \in {j \in P :
        MemberCallAt(code, j, "React", REACT_MEMBER_APIS.React, {"(", "<"})}}
    \cup
    {code[i] : i \in {j \in P :
        code[j] \in REACT_HOOKS \cup REACT_IMPORTS /\ AfterSpace(code, j + 1) = "("}}
    \cup
    {Dotted("React", code[i + 4]) : i \in {j \in P :
        /\ At(code, j) = "extends" /\ At(code, j + 1) = " "
        /\ At(code, j + 2) = "React" /\ At(code, j + 3) = "."
        /\ At(code, j + 4) \in {"Component", "PureComponent"}}}
    \cup
    {Dotted("React", code[i + 2]) : i \in {j \in P :
        /\ At(code, j) = "React" /\ At(code, j + 1) = "."
        /\ At(code, j + 2) \in {"Fragment", "StrictMode", "Suspense", "Profiler"}}}
    \cup
    (IF \E j \in P :
           /\ At(code, j) = "React" /\ At(code, j + 1) = "."
           /\ At(code, j + 2) = "Children" /\ At(code, j + 3) = "."
           /\ At(code, j + 4) \notin Punctuation \cup {""}
     THEN {"React.Children.map"} ELSE {})

----------------------------------------------------------------------------
(* Sampled source files *)

Identifier(name) == [type |-> "Identifier", name |-> name]

Literal(raw) == [type |-> "Literal", raw |-> raw]

MemberExpression(object, property) ==
    [type |-> "MemberExpression", computed |-> FALSE,
     object |-> object, property |-> Identifier(property)]

CallExpression(callee, arguments) ==
    [type |-> "CallExpression", callee |-> callee, arguments |-> arguments]

ExpressionStatement(expression) ==
    [type |-> "ExpressionStatement", expression |-> expression]

VariableDeclaration(name, init) ==
    [type |-> "VariableDeclaration", kind |-> "const",
     declarations |-> <<[type |-> "VariableDeclarator", id |-> Identifier(name),
                         init |-> init]>>]

ClassBody == [type |-> "ClassBody", body |-> <<>>]

Program(sourceType, body) ==
    [type |-> "Program", sourceType |-> sourceType, body |-> body]

\* A sample is a text, the grammar under which esprima accepts it ("script":
\* parseScript succeeds; "module": only parseModule does; "none": both
\* raise), the tree the accepting grammar gives, and whether the text is
\* made only of call, member and class constructs, with no catalog name in
\* a comment or a string.
Source(code, grammar, ast, plain) ==
    [code |-> code, grammar |-> grammar, ast |-> ast, plain |-> plain]

\* useState(0)
BareHook ==
    Source(<<"useState", "(", "0", ")">>, "script",
           Program("script", <<ExpressionStatement(
               CallExpression(Identifier("useState"), <<Literal("0")>>))>>), TRUE)

\* useState(0); useId(); useState(1)
RepeatedHooks ==
    Source(<<"useState", "(", "0", ")", ";", " ", "useId", "(", ")", ";", " ",
             "useState", "(", "1", ")">>, "script",
           Program("script",
               <<ExpressionStatement(
                     CallExpression(Identifier("useState"), <<Literal("0")>>)),
                 ExpressionStatement(CallExpression(Identifier("useId"), <<>>)),
                 ExpressionStatement(
                     CallExpression(Identifier("useState"), <<Literal("1")>>))>>),
           TRUE)

\* useState(0); useId(     -- two hooks in a text neither grammar accepts
BrokenHooks ==
    Source(<<"useState", "(", "0", ")", ";", " ", "useId", "(">>, "none",
           EmptyMap, TRUE)

\* React.useState(0)
QualifiedHook ==
    Source(<<"React", ".", "useState", "(", "0", ")">>, "script",
           Program("script", <<ExpressionStatement(
               CallExpression(MemberExpression(Identifier("React"), "useState"),
                              <<Literal("0")>>))>>), TRUE)

\* ReactDOM.render(app, el)
RenderCall ==
    Source(<<"ReactDOM", ".", "render", "(", "app", ",", " ", "el", ")">>, "script",
           Program("script", <<ExpressionStatement(
               CallExpression(MemberExpression(Identifier("ReactDOM"), "render"),
                              <<Identifier("app"), Identifier("el")>>))>>), TRUE)

\* const r = ReactDOM.render;
RenderReference ==
    Source(<<"const", " ", "r", " ", "=", " ", "ReactDOM", ".", "render", ";">>,
           "script",
           Program("script", <<VariableDeclaration("r",
               MemberExpression(Identifier("ReactDOM"), "render"))>>), TRUE)

\* class A extends React.Component {}
ClassComponent ==
    Source(<<"class", " ", "A", " ", "extends", " ", "React", ".", "Component",
             " ", "{", "}">>, "script",
           Program("script", <<[type |-> "ClassDeclaration", id |-> Identifier("A"),
               superClass |-> MemberExpression(Identifier("React"), "Component"),
               body |-> ClassBody]>>), TRUE)

\* const A = class extends React.Component {}
ClassExpressionComponent ==
    Source(<<"const", " ", "A", " ", "=", " ", "class", " ", "extends", " ",
             "React", ".", "Component", " ", "{", "}">>, "script",
           Program("script", <<VariableDeclaration("A",
               [type |-> "ClassExpression",
                superClass |-> MemberExpression(Identifier("React"), "Component"),
                body |-> ClassBody])>>), TRUE)

\* React.Children.map(c, f)
ChildrenMap ==
    Source(<<"React", ".", "Children", ".", "map", "(", "c", ",", " ", "f", ")">>,
           "script",
           Program("script", <<ExpressionStatement(CallExpression(
               [type |-> "MemberExpression", computed |-> FALSE,
                object |-> MemberExpression(Identifier("React"), "Children"),
                property |-> Identifier("map")],
               <<Identifier("c"), Identifier("f")>>))>>), TRUE)

\* const C = React.Children;
ChildrenReference ==
    Source(<<"const", " ", "C", " ", "=", " ", "React", ".", "Children", ";">>,
           "script",
           Program("script", <<VariableDeclaration("C",
               MemberExpression(Identifier("React"), "Children"))>>), TRUE)

\* import { createRoot } from 'react-dom/client'
ImportOnly ==
    Source(<<"import", " ", "{", " ", "createRoot", " ", "}", " ", "from", " ",
             "'", "react-dom/client", "'">>, "module",
           Program("module", <<[type |-> "ImportDeclaration",
               specifiers |-> <<[type |-> "ImportSpecifier",
                                 imported |-> Identifier("createRoot"),
                                 local |-> Identifier("createRoot")]>>,
               source |-> Literal("'react-dom/client'")]>>), FALSE)

\* // useId(
CommentedHook ==
    Source(<<"//", " ", "useId", "(">>, "script", Program("script", <<>>), FALSE)

\* useState(     -- the argument list is never closed
BrokenHook ==
    Source(<<"useState", "(">>, "none", EmptyMap, TRUE)

\* helper(1)
NoReact ==
    Source(<<"helper", "(", "1", ")">>, "script",
           Program("script", <<ExpressionStatement(
               CallExpression(Identifier("helper"), <<Literal("1")>>))>>), TRUE)

\* helper(     -- neither grammar accepts it and no rule matches
BrokenNoReact ==
    Source(<<"helper", "(">>, "none", EmptyMap, TRUE)

Sources ==
    {BareHook, RepeatedHooks, BrokenHooks, QualifiedHook, RenderCall, RenderReference, ClassComponent,
     ClassExpressionComponent, ChildrenMap, ChildrenReference, ImportOnly,
     CommentedHook, BrokenHook, NoReact, BrokenNoReact}

----------------------------------------------------------------------------
(* code_analyzer: extraction of one file and the project walk *)

\* extract_api_calls_regex: opens the file, then applies the rules.
ExtractApiCallsRegex(source, opens) ==
    IF opens
    THEN [raised |-> FALSE, via |-> "regex",
          calls |-> SortedList(RegexCalls(source.code))]
    ELSE [raised |-> TRUE, via |-> "regex", calls |-> <<>>]

\* A variant that gives up on the tree as soon as the script grammar fails.
ExtractApiCallsAstScriptOnly(esprima, f) ==
    IF ~esprima THEN ExtractApiCallsRegex(f.source, f.open1)
    ELSE IF ~f.open1 THEN [raised |-> TRUE, via |-> "none", calls |-> <<>>]
    ELSE IF f.source.grammar = "script"
         THEN [raised |-> FALSE, via |-> "walk",
               calls |-> SortedList(Walk(f.source.ast))]
         ELSE ExtractApiCallsRegex(f.source, f.open2)

\* extract_api_calls_ast for a file: which extractor answered, what it found,
\* and whether an exception left the function.
ExtractApiCallsAst(esprima, f) ==
    IF ~esprima THEN ExtractApiCallsRegex(f.source, f.open1)
    ELSE IF ~f.open1 THEN [raised |-> TRUE, via |-> "none", calls |-> <<>>]
    ELSE IF f.source.grammar \in {"script", "module"}
         THEN [raised |-> FALSE, via |-> "walk",
               calls |-> SortedList(Walk(f.source.ast))]
         ELSE ExtractApiCallsRegex(f.source, f.open2)

Extensions == {".js", ".jsx", ".tsx", ".ts", ".mjs"}

\* The files a walk can meet: a name that is not a source file, or a source
\* file with a sampled text and the outcome of each open() on it.  The second
\* open happens only on the way through the regex fallback.
FileStates(esprima, file_path) ==
    {[file |-> file_path, ext |-> ".md", source |-> NoReact,
      open1 |-> TRUE, open2 |-> TRUE]}
    \cup
    {f \in [file : {file_path}, ext : {".jsx"}, source : Sources,
            open1 : BOOLEAN, open2 : BOOLEAN] :
        ~f.open2 => (esprima /\ f.open1 /\ f.source.grammar = "none")}

\* A variant of the loop body without the per-file exception handler.
ScanStepNoCatch(found, skipd, f, r) ==
    IF f.ext \notin Extensions
    THEN [results |-> found, skipped |-> skipd, aborted |-> FALSE]
    ELSE IF r.raised
    THEN [results |-> found, skipped |-> skipd, aborted |-> TRUE]
    ELSE IF r.calls # <<>>
    THEN [results |-> Append(found, [file |-> f.file, calls |-> r.calls]),
          skipped |-> skipd, aborted |-> FALSE]
    ELSE [results |-> found, skipped |-> skipd, aborted |-> FALSE]

\* A variant of the loop body that stores every extraction, empty or not.
ScanStepKeepEmpty(found, skipd, f, r) ==
    IF f.ext \notin Extensions
    THEN [results |-> found, skipped |-> skipd, aborted |-> FALSE]
    ELSE IF r.raised
    THEN [results |-> found,
          skipped |-> Append(skipd, [file |-> f.file, reason |-> "OSError"]),
          aborted |-> FALSE]
    ELSE [results |-> Append(found, [file |-> f.file, calls |-> r.calls]),
          skipped |-> skipd, aborted |-> FALSE]

\* The body of the walk for one file, given what its extraction r gave:
\* the new results and skipped, and whether an exception left scan_project.
ScanStep(found, skipd, f, r) ==
    IF f.ext \notin Extensions
    THEN [results |-> found, skipped |-> skipd, aborted |-> FALSE]
    ELSE IF r.raised
    THEN [results |-> found,
          skipped |-> Append(skipd, [file |-> f.file, reason |-> "OSError"]),
          aborted |-> FALSE]
    ELSE IF r.calls # <<>>
    THEN [results |-> Append(found, [file |-> f.file, calls |-> r.calls]),
          skipped |-> skipd, aborted |-> FALSE]
    ELSE [results |-> found, skipped |-> skipd, aborted |-> FALSE]

checkVars ==
    <<args, exit_code, call, todo, results_cache, lists, report, runs, seen,
      queries, answers, api_in, api_out, again_in, again_out>>

\* import of code_analyzer: esprima is installed or it is not
ImportAnalyzer ==
    /\ pc = "start"
    /\ has_esprima' \in BOOLEAN
    /\ pc' = "walk"
    /\ UNCHANGED <<project, scan_results, skipped, api_usage>>
    /\ UNCHANGED checkVars

\* scan_project: one iteration of the walk, for the next file met
ScanFile ==
    /\ pc = "walk"
    /\ Len(project) < MaxFiles
    /\ \E f \in FileStates(has_esprima, Len(project) + 1) :
         LET r == ExtractApiCallsAst(has_esprima, f)
             step == ScanStep(scan_results, skipped, f, r)
         IN  /\ project' = Append(project, f @@ [via |-> r.via, raised |-> r.raised])
             /\ scan_results' = step.results
             /\ skipped' = step.skipped
             /\ pc' = IF step.aborted THEN "scan_raised" ELSE "walk"
    /\ UNCHANGED <<has_esprima, api_usage>>
    /\ UNCHANGED checkVars

\* scan_project: return results; the locals of the call are gone
ScanReturn ==
    /\ pc = "walk"
    /\ api_usage' = scan_results
    /\ scan_results' = <<>>
    /\ skipped' = <<>>
    /\ pc' = "scanned"
    /\ UNCHANGED <<has_esprima, project>>
    /\ UNCHANGED checkVars

NextScan == ImportAnalyzer \/ ScanFile \/ ScanReturn

SpecScan == Init /\ [][NextScan]_vars

----------------------------------------------------------------------------
(* Properties of the project walk *)

\* A read of the file raised: the only way extraction of a file fails.
FileFails(f) ==
    /\ f.ext \in Extensions
    /\ \/ ~f.open1
       \/ has_esprima /\ f.source.grammar = "none" /\ ~f.open2

\* What the code's choice of extractor is specified to find in a file.
ExpectedCalls(f) ==
    IF has_esprima /\ f.source.grammar # "none"
    THEN SortedList(Walk(f.source.ast))
    ELSE SortedList(RegexCalls(f.source.code))

\* The mapping built so far, or the one handed to the caller.
Mapping == IF pc = "scanned" THEN api_usage ELSE scan_results

EntriesOf(file_path) ==
    {Mapping[k].calls : k \in {j \in DOMAIN Mapping : Mapping[j].file = file_path}}

Healthy(f) == f.ext \in Extensions /\ ~FileFails(f) /\ ExpectedCalls(f) # <<>>

\* C11: a file whose extraction fails never stops the walk; the mapping is
\* the one the walk gives for the other files alone, in walk order, each
\* with its own symbols.
C11_FailureDoesNotStopWalk ==
    /\ pc # "scan_raised"
    /\ pc \in {"walk", "scanned"} =>
         LET others == SelectSeq(project, Healthy)
         IN  /\ Len(Mapping) = Len(others)
             /\ \A k \in DOMAIN others :
                    /\ Mapping[k].file = others[k].file
                    /\ Mapping[k].calls = ExpectedCalls(others[k])

C11_Witness ==
    /\ pc = "scanned"
    /\ \E i, j \in DOMAIN project :
         /\ i < j
         /\ FileFails(project[i])
         /\ Healthy(project[j])
         /\ EntriesOf(project[j].file) # {}

\* C12: once scan_project has returned, every file that failed is itemized
\* in what the caller holds, by an entry naming the file.
C12_FailuresItemized ==
    pc = "scanned" =>
        \A i \in DOMAIN project :
            FileFails(project[i]) =>
                \/ \E k \in DOMAIN skipped : skipped[k].file = project[i].file
                \/ \E k \in DOMAIN api_usage : api_usage[k].file = project[i].file

\* C13: every entry of the mapping is a non-empty list of canonical symbols
\* in strictly increasing code-point order (so sorted and duplicate free), and a
\* file with no match is not a key, whichever extractor answered.
C13_EntriesSortedNonEmpty ==
    pc \in {"walk", "scanned"} =>
        /\ \A k \in DOMAIN Mapping :
               LET calls == Mapping[k].calls
               IN  /\ Len(calls) > 0
                   /\ \A a \in DOMAIN calls : calls[a] \in Range(SortedNames)
                   /\ \A a, b \in DOMAIN calls :
                          a < b => Rank(calls[a]) < Rank(calls[b])
        /\ \A i \in DOMAIN project :
               (~FileFails(project[i]) /\ ExpectedCalls(project[i]) = <<>>)
                   => EntriesOf(project[i].file) = {}

C13_Witness ==
    /\ pc = "scanned"
    /\ \E i, j \in DOMAIN project :
         /\ project[i].via = "regex" /\ project[j].via = "walk"
         /\ \E calls \in EntriesOf(project[i].file) : Len(calls) = 2
         /\ project[j].ext \in Extensions /\ ~project[j].raised
         /\ EntriesOf(project[j].file) = {}

\* C15: for a file made only of call, member and class constructs, the tree
\* walk and the regex rules find the same set of canonical symbols.
C15_ExtractorsAgree ==
    \A i \in DOMAIN project :
        LET f == project[i]
        IN  (f.ext \in Extensions /\ f.source.plain /\ f.source.grammar # "none")
                => Walk(f.source.ast) = RegexCalls(f.source.code)

\* C20: the regex result is used exactly when esprima is missing or both
\* grammars raise; if a grammar parses the entry is the tree walk's; a file
\* is in skipped exactly when a read of it raised, never for a parse failure.
C20_FallbackOnlyWhenParsingFails ==
    pc \in {"walk", "scanned"} =>
        \A i \in DOMAIN project :
            LET f == project[i]
                parses == f.source.grammar \in {"script", "module"}
            IN  f.ext \in Extensions =>
                /\ f.via = "regex" <=> (~has_esprima \/ (f.open1 /\ ~parses))
                /\ (has_esprima /\ f.open1 /\ parses) =>
                       /\ f.via = "walk"
                       /\ EntriesOf(f.file) =
                              {SortedList(Walk(f.source.ast))} \ {<<>>}
                /\ (f.via = "regex" /\ ~FileFails(f)) =>
                       EntriesOf(f.file) =
                           {SortedList(RegexCalls(f.source.code))} \ {<<>>}
                /\ f.raised <=> FileFails(f)
                /\ pc = "walk" =>
                       (FileFails(f) <=>
                            \E k \in DOMAIN skipped : skipped[k].file = f.file)

C20_Witness ==
    /\ pc = "walk"
    /\ has_esprima
    /\ skipped = <<>>
    /\ \E i \in DOMAIN project :
         /\ project[i].source.grammar = "none"
         /\ project[i].via = "regex"
         /\ EntriesOf(project[i].file) = {<<"useId", "useState">>}

----------------------------------------------------------------------------
(* Properties of failure handling in a whole run *)

\* C14: once check_project has started, no failure in classifying a symbol
\* (its description and embedding, the conversion of the target version,
\* the provider query) makes check_project raise.
C14_NoFailureRaises == call # NoCall => pc # "raised"

\* C16: every breaking_change or minor_change verdict check_api returns
\* carries a confidence that is its similarity score times 100 to one
\* decimal, the verdict for an empty answer included (score 0).
C16_ConfidenceAccompanies ==
    (Returned /\ api_out.verdict.status \in {"breaking_change", "minor_change"}) =>
        /\ "confidence" \in DOMAIN api_out.verdict
        /\ LET score == IF HasCandidates THEN TopSimilarity ELSE 0
               diff == 100 * api_out.verdict.confidence - score
           IN  -50 <= diff /\ diff <= 50

\* C19: a path that does not exist ends the run with exit code 1 with
\* nothing scanned, no checker call and no provider query; a scan that finds
\* nothing ends it with exit code 0, again with no checker call and no query.
C19_EarlyExits ==
    args # NoArgs =>
        /\ (~args.path_exists /\ pc # "validate") =>
               /\ pc = "exited" /\ exit_code = 1
               /\ api_usage = <<>>
               /\ call = NoCall /\ runs = 0
               /\ \A s \in Symbols : queries[s] = 0
        /\ (args.path_exists /\ pc \notin {"validate", "scan"} /\ api_usage = <<>>) =>
               /\ pc = "exited" /\ exit_code = 0
               /\ call = NoCall /\ runs = 0
               /\ \A s \in Symbols : queries[s] = 0
        /\ pc = "exited" =>
               (exit_code = 1 <=> ~args.path_exists)

C19_Witness ==
    /\ args # NoArgs
    /\ pc = "exited"
    /\ ~args.path_exists
    /\ exit_code = 1

----------------------------------------------------------------------------
(* A second request during an aggregation, and an aborted run *)

\* While check_project runs, check_api is asked again, with the arguments
\* of the run, for a symbol the run has already classified (a second caller
\* holding the same checker).  check_api reads no cache.
SecondRequest ==
    /\ pc \in {"classify", "fanout"}
    /\ api_out = NoCall
    /\ \E api_call \in DOMAIN results_cache, outcome \in ProjectOutcomes :
         LET r == CheckApi(api_call, call.old_version, call.new_version,
                           call.library, outcome)
         IN  /\ api_in' = [api_call |-> api_call,
                           old_version |-> call.old_version,
                           new_version |-> call.new_version,
                           library |-> call.library, outcome |-> outcome,
                           context |-> BuildContext(api_call)]
             /\ api_out' = r
             /\ queries' = [queries EXCEPT ![api_call] = @ + r.asked]
    /\ UNCHANGED <<pc, args, exit_code, call, api_usage, todo, results_cache,
                   lists, report, runs, seen, answers>>
    /\ UNCHANGED scanVars
    /\ UNCHANGED pairVars

NextTwice == NextLib \/ SecondRequest

SpecTwice == Init /\ [][NextTwice]_vars

\* C17: when check_api is asked for a symbol a second time during one
\* aggregation, the provider has still been queried once for it and the
\* second caller gets the verdict the first request produced.
C17_SingleFlight ==
    (api_out # NoCall /\ pc \in {"classify", "fanout"}) =>
        /\ queries[api_in.api_call] = 1
        /\ ~api_out.raised
        /\ api_out.verdict = results_cache[api_in.api_call]

\* KeyboardInterrupt between two files: it is no Exception, so the handler
\* of the loop does not catch it and scan_project's frame is dropped.
AbortScan ==
    /\ pc = "walk"
    /\ project # <<>>
    /\ pc' = "aborted"
    /\ scan_results' = <<>>
    /\ skipped' = <<>>
    /\ UNCHANGED <<has_esprima, project, api_usage>>
    /\ UNCHANGED checkVars

\* KeyboardInterrupt between two symbols: check_project's frame, with
\* results_cache and the four lists, is dropped.
AbortCheck ==
    /\ pc = "classify"
    /\ results_cache # EmptyMap
    /\ pc' = "aborted"
    /\ results_cache' = EmptyMap
    /\ lists' = EmptyLists
    /\ todo' = <<>>
    /\ UNCHANGED <<args, exit_code, call, api_usage, report, runs, seen,
                   queries, answers, api_in, api_out>>
    /\ UNCHANGED scanVars
    /\ UNCHANGED pairVars

NextAbort == NextScan \/ AbortScan \/ NextLib \/ AbortCheck

SpecAbort == Init /\ [][NextAbort]_vars

\* C18: after an abort between two files or two symbols the caller still
\* holds the entry of every file the walk completed and the verdict of every
\* symbol the provider had answered for.
C18_PartialResultsSurvive ==
    pc = "aborted" =>
        /\ \A i \in DOMAIN project :
               Healthy(project[i]) =>
                   \E k \in DOMAIN api_usage : api_usage[k].file = project[i].file
        /\ \A s \in DOMAIN answers :
               answers[s].kind = "results" => s \in DOMAIN results_cache

----------------------------------------------------------------------------
(* Properties of the description and the migration text *)

\* The parts of a text, compared without regard to case.
LowerCase(part) == IF part = "React" THEN "react" ELSE part

Embeds(text, name) == \E i \in DOMAIN text : LowerCase(text[i]) = LowerCase(name)

\* C21: the description built for a symbol is the table's entry when the
\* symbol is a key of the table, and otherwise a sentence that embeds the
\* symbol and the library check_api was called with.
C21_ContextNamesLibrary ==
    api_in # NoCall =>
        IF api_in.api_call \in ContextKeys
        THEN api_in.context = <<api_in.api_call, ": ", "description">>
        ELSE /\ Embeds(api_in.context, api_in.api_call)
             /\ Embeds(api_in.context, api_in.library)

\* C22: a breaking_change verdict, from an empty answer or from the
\* decision on the top candidate, carries the catalogued guide when the
\* catalog has one for the symbol and the new version, and the generic text
\* otherwise; no other verdict carries a migration.
C22_MigrationOnBreakingOnly ==
    Returned =>
        LET verdict == api_out.verdict
            catalogued == /\ api_in.api_call \in GuidedApis
                          /\ api_in.new_version = "18"
        IN  IF verdict.status = "breaking_change"
            THEN /\ "migration" \in DOMAIN verdict
                 /\ catalogued =>
                        verdict.migration = <<"guide", api_in.api_call, "18">>
                 /\ ~catalogued =>
                        verdict.migration =
                            <<"  No specific migration guide available. Check the official documentation.">>
            ELSE /\ verdict.status \in {"minor_change", "compatible", "error"}
                 /\ "migration" \notin DOMAIN verdict

C22_Witness ==
    /\ Returned
    /\ api_in.api_call = "ReactDOM.render"
    /\ api_in.new_version = "19"
    /\ HasCandidates
    /\ api_out.verdict.status = "breaking_change"
    /\ api_out.verdict.migration # <<"guide", "ReactDOM.render", "18">>

\* The text holds an access chain owner.name.<property>.
HasChainOfTwo(code, owner, name) ==
    \E j \in DOMAIN code :
        /\ At(code, j) = owner /\ At(code, j + 1) = "."
        /\ At(code, j + 2) = name /\ At(code, j + 3) = "."
        /\ At(code, j + 4) \notin Punctuation \cup {""}

\* The text holds the member access owner.name.
HasAccess(code, owner, name) ==
    \E j \in DOMAIN code :
        At(code, j) = owner /\ At(code, j + 1) = "." /\ At(code, j + 2) = name

\* C23: the tree walk reports React.Children.map exactly for a file with a
\* chain React.Children.<property>, not for React.Children alone; it reports
\* Owner.prop for a member access only when the access is in the file, the
\* owner is known and the property is in the owner's method set.
C23_ChildrenNeedsChainOfTwo ==
    \A i \in DOMAIN project :
        LET f == project[i]
            found == Walk(f.source.ast)
        IN  (f.via = "walk" /\ ~f.raised) =>
                /\ "React.Children.map" \in found
                       <=> HasChainOfTwo(f.source.code, "React", "Children")
                /\ \A owner \in DOMAIN REACT_MEMBER_APIS :
                       \A prop \in {"render", "createElement"} :
                           Dotted(owner, prop) \in found =>
                               /\ prop \in REACT_MEMBER_APIS[owner]
                               /\ HasAccess(f.source.code, owner, prop)

----------------------------------------------------------------------------
(* Two calls that differ in one input *)

\* Answers with the same first candidate as a given answer.
RelatedOutcomes(outcome) ==
    IF outcome.kind = "results" /\ outcome.results # <<>>
    THEN {Returns(<<outcome.results[1]>> \o rest) :
              rest \in {<<>>} \cup {<<d>> : d \in LowerCandidates}
                       \cup {<<d, e>> : d, e \in LowerCandidates}}
             \cup {outcome}
    ELSE {outcome}

\* check_api is called again on the same checker for the same symbol, new
\* version and library, with some old version, while the provider gives an
\* answer that has the same first candidate.
CallCheckApiAgain ==
    /\ pc = "called"
    /\ \E old_version \in {"16", "17"}, outcome \in RelatedOutcomes(api_in.outcome) :
         /\ again_in' = [api_call |-> api_in.api_call, old_version |-> old_version,
                         new_version |-> api_in.new_version,
                         library |-> api_in.library, outcome |-> outcome,
                         context |-> BuildContext(api_in.api_call),
                         query |-> ProviderQuery(api_in.api_call, old_version,
                                                 api_in.new_version, api_in.library)]
         /\ again_out' = CheckApi(api_in.api_call, old_version, api_in.new_version,
                                  api_in.library, outcome)
    /\ pc' = "called_again"
    /\ UNCHANGED <<args, exit_code, call, api_usage, todo, results_cache,
                   lists, report, runs, seen, queries, answers, api_in, api_out>>
    /\ UNCHANGED scanVars

\* The last call of check_project on the checker repeats the one before
\* with the same usage, new version and library, and some old version; the
\* finished run is kept for comparison.
CallCheckProjectAgain ==
    /\ pc = "done"
    /\ args = NoArgs
    /\ runs = MaxRuns - 1
    /\ again_in = NoCall
    /\ again_in' = [api_usage |-> api_usage, call |-> call,
                    answers |-> answers, queries |-> queries]
    /\ again_out' = report
    /\ \E old_version \in {"16", "17"} :
           EnterProject(api_usage, old_version, call.new_version, call.library)
    /\ UNCHANGED <<args, exit_code, api_in, api_out>>
    /\ UNCHANGED scanVars

NextPair ==
    \/ CallCheckApi
    \/ CallCheckApiAgain
    \/ NextLib
    \/ CallCheckProjectAgain

SpecPair == InitApi /\ [][NextPair]_vars

\* C24: two calls of check_api whose candidate lists have the same first
\* element return the same verdict, whatever the other candidates are.
C24_OnlyTopCandidateCounts ==
    (/\ pc = "called_again"
     /\ again_in.old_version = api_in.old_version
     /\ api_in.outcome.kind = "results" /\ api_in.outcome.results # <<>>
     /\ again_in.outcome.kind = "results" /\ again_in.outcome.results # <<>>
     /\ again_in.outcome.results[1] = api_in.outcome.results[1])
        => again_out = api_out

C24_Witness ==
    /\ pc = "called_again"
    /\ again_in.old_version = api_in.old_version
    /\ Returned
    /\ api_in.outcome.kind = "results" /\ Len(api_in.outcome.results) = 1
    /\ again_in.outcome.kind = "results" /\ Len(again_in.outcome.results) = 3
    /\ again_in.outcome.results[1] = api_in.outcome.results[1]
    /\ Get(Get(again_in.outcome.results[1], "meta", EmptyMap), "deprecated", FALSE)
    /\ again_in.outcome.results[2] = Candidate(99000, Meta("useState", FALSE))
    /\ again_out.verdict.status = "breaking_change"

\* A finished check_project run that had the inputs of the run kept for
\* comparison, the old version apart, and got the same provider answers.
SameRunButOld ==
    /\ Finished
    /\ pc = "done"
    /\ "call" \in DOMAIN again_in
    /\ api_usage = again_in.api_usage
    /\ call.new_version = again_in.call.new_version
    /\ call.library = again_in.call.library
    /\ answers = again_in.answers

\* C25: two calls of check_api, or two runs of check_project, that differ
\* only in the old version send the same queries to the provider and return
\* the same verdict or report.
C25_OldVersionIsIgnored ==
    /\ (pc = "called_again" /\ again_in.outcome = api_in.outcome) =>
           /\ again_out = api_out
           /\ again_in.query = api_in.query
    /\ SameRunButOld =>
           /\ report = again_out
           /\ queries = again_in.queries

C25_Witness ==
    /\ SameRunButOld
    /\ call.old_version # again_in.call.old_version
    /\ \E s \in DOMAIN answers : answers[s].kind = "results"
    /\ report = again_out
    /\ report.summary.total_apis > 0

----------------------------------------------------------------------------
(* The report as a partition *)

Statuses == {"breaking_change", "minor_change", "compatible", "error"}

\* The summary count that goes with a status.
SummaryCount(status) ==
    IF status = "breaking_change" THEN report.summary.breaking
    ELSE IF status = "minor_change" THEN report.summary.minor
    ELSE IF status = "error" THEN report.summary.errors
    ELSE report.summary.compatible

\* C26: in a report every (file, symbol) occurrence has its entry in exactly
\* one of the four lists, every entry of a list has the status of the list
\* and is about an occurrence, and each summary count is the number of
\* distinct symbols in its list.
C26_ListsPartitionByStatus ==
    Finished =>
        /\ \A status \in Statuses :
               /\ \A k \in DOMAIN ListOf(status) :
                      /\ ListOf(status)[k].status = status
                      /\ <<ListOf(status)[k].file, SymbolOf(ListOf(status)[k])>>
                             \in Occurrences
               /\ SummaryCount(status) = DistinctSymbols(ListOf(status))
        /\ \A occ \in Occurrences :
               \E status \in Statuses :
                   /\ Cardinality(EntriesFor(ListOf(status), occ[1], occ[2])) = 1
                   /\ \A other \in Statuses \ {status} :
                          EntriesFor(ListOf(other), occ[1], occ[2]) = {}

C26_Witness ==
    /\ Finished
    /\ Len(report.errors) = 2
    /\ report.summary.errors = 1
    /\ Len(report.minor_changes) = 1
    /\ report.compatible = <<>>

====
